---------------------------- MODULE Spec2Model ----------------------------
(***************************************************************************)
(* Model of the directory synchronisation and rotation/staging logic of    *)
(* gaw-mkn-daq:                                                            *)
(*   mkndaq/utils/filesync.py   rsync                                      *)
(*   mkndaq/inst/aerosol.py     AEROSOL.store_and_stage_new_files          *)
(*   mkndaq/inst/tei49i.py      TEI49I.get_data                            *)
(*   mkndaq/inst/tei49c.py      TEI49C.get_data                            *)
(*   mkndaq/inst/meteo.py       METEO.store_and_stage_files                *)
(*                                                                         *)
(* File names are sequences of characters, paths are sequences of path     *)
(* components, Python's None is the empty sequence and a value v that may  *)
(* be None is <<v>>.                                                       *)
(***************************************************************************)
EXTENDS Integers, Sequences, FiniteSets, TLC

VARIABLES
    clock,        \* wall clock, seconds since 00:00:00 of Epoch
    srcEnts,      \* entries below the netshare (written by the external producer)
    srcDirs,      \* bucket directories that exist below the netshare
    tgtEnts,      \* entries below AEROSOL._datadir (the local archive)
    tgtDirs,      \* directories that exist below AEROSOL._datadir
    staging,      \* <staging>/<AEROSOL._name>: the artifacts, one per name
    aerosol,      \* class attributes of AEROSOL set by __init__
    tei,          \* attributes of the TEI49I object of the running process
    teiFiles,     \* rotation files below TEI49I.__datadir: path -> lines
    teiStaging,   \* <staging>/<basename of TEI49I.__datadir>: the artifacts
    cycles,       \* the invocations of store_and_stage_new_files in progress
    tei49c,       \* class attributes of TEI49C
    tei49cFiles,  \* rotation files below TEI49C._datadir: path -> lines
    tei49cStaging,\* <staging>/<basename of TEI49C._datadir>: the artifacts
    meteo,        \* attributes of the METEO object
    meteoSource,  \* names of the files in METEO.source
    meteoData,    \* files below METEO.data_path
    meteoStaging, \* METEO.staging: the artifacts
    dirOrder,     \* the order in which the file system lists METEO.source
    last          \* the operation executed last and what it returned or raised

vars == <<clock, srcEnts, srcDirs, tgtEnts, tgtDirs, staging,
          aerosol, tei, teiFiles, teiStaging, cycles,
          tei49c, tei49cFiles, tei49cStaging,
          meteo, meteoSource, meteoData, meteoStaging, dirOrder, last>>

tei49cVars == <<tei49c, tei49cFiles, tei49cStaging>>
meteoVars  == <<meteo, meteoSource, meteoData, meteoStaging, dirOrder>>

syncVars == <<srcEnts, srcDirs, tgtEnts, tgtDirs, staging, aerosol>>
teiVars  == <<tei, teiFiles, teiStaging>>

-----------------------------------------------------------------------------
(* Bounds of the model *)

\* the largest number of records the instrument reports in its buffer
MaxLrec == 21

\* one-second advances of the clock within an hour
MaxSecs == 1
\* one-hour advances of the clock
MaxHours == 1
\* entries the producer places below the netshare
MaxSrcEntries == 2
\* the second of a cycle's copies (or staging steps) that may fail
MaxFailAt == 2
\* lines (header and records) of one rotation file
MaxLines == 3
\* the largest value of rsync's parameter days in a direct call
MaxDays == 3
\* how far below zero the parameter days goes in a direct call
MaxNegDays == 1
\* the days before today on which the source of a direct call was written
MaxDaysBack == 2

-----------------------------------------------------------------------------
(* Python values *)

None == <<>>
Some(v) == <<v>>

\* the default of rsync's parameter delay
DefaultDelay == 3600

SecondsPerDay == 24 * 3600

\* the date of clock 0: 2024-02-29 (the next day opens a new month)
Epoch == [y |-> 2024, m |-> 2, d |-> 29]

-----------------------------------------------------------------------------
(* Calendar: datetime.now() - timedelta(days) and strftime *)

IsLeap(y) == (y % 4 = 0 /\ y % 100 # 0) \/ y % 400 = 0

DaysInMonth(y, m) ==
    IF m = 2 THEN (IF IsLeap(y) THEN 29 ELSE 28)
    ELSE IF m \in {4, 6, 9, 11} THEN 30 ELSE 31

NextDate(dt) ==
    IF dt.d < DaysInMonth(dt.y, dt.m) THEN [dt EXCEPT !.d = @ + 1]
    ELSE IF dt.m < 12 THEN [y |-> dt.y, m |-> dt.m + 1, d |-> 1]
    ELSE [y |-> dt.y + 1, m |-> 1, d |-> 1]

PrevDate(dt) ==
    IF dt.d > 1 THEN [dt EXCEPT !.d = @ - 1]
    ELSE IF dt.m > 1 THEN [y |-> dt.y, m |-> dt.m - 1, d |-> DaysInMonth(dt.y, dt.m - 1)]
    ELSE [y |-> dt.y - 1, m |-> 12, d |-> 31]

RECURSIVE DatePlus(_, _)
DatePlus(dt, n) == IF n <= 0 THEN dt ELSE DatePlus(NextDate(dt), n - 1)

RECURSIVE DateMinus(_, _)
DateMinus(dt, n) == IF n <= 0 THEN dt ELSE DateMinus(PrevDate(dt), n - 1)

\* datetime.datetime.now().date() at clock t
Today(t) == DatePlus(Epoch, t \div SecondsPerDay)

Digit == <<"0", "1", "2", "3", "4", "5", "6", "7", "8", "9">>

\* %m, %d: two digits, zero padded
Fmt2(n) == <<Digit[((n \div 10) % 10) + 1], Digit[(n % 10) + 1]>>

\* %Y: four digits
Fmt4(n) == <<Digit[((n \div 1000) % 10) + 1], Digit[((n \div 100) % 10) + 1],
             Digit[((n \div 10) % 10) + 1], Digit[(n % 10) + 1]>>

\* strftime(f"%Y{sep}%m{sep}%d"): the path of a day bucket
FmtDaily(dt) == <<Fmt4(dt.y), Fmt2(dt.m), Fmt2(dt.d)>>

\* strftime(f"%Y{sep}%m"): the path of a month bucket
FmtMonthly(dt) == <<Fmt4(dt.y), Fmt2(dt.m)>>

-----------------------------------------------------------------------------
(* Names and directory listings *)

\* the top of a tree: os.path.join(source, "") names the directory itself
Root == <<>>

ADat == <<"a", ".", "d", "a", "t">>
ATxt == <<"a", ".", "t", "x", "t">>
Tags == <<"t", "a", "g", "s">>
Sub  == <<"s", "u", "b">>

\* names the producer gives to what it writes below the netshare
SrcNames == {ADat, ATxt, Tags}

\* the characters of the names, in code point order
Alphabet == <<".", "a", "b", "d", "g", "i", "p", "s", "t", "u", "x", "z">>

Ord(c) == CHOOSE i \in 1..Len(Alphabet) : Alphabet[i] = c

\* a < b for Python strings
RECURSIVE StrLess(_, _)
StrLess(a, b) ==
    IF b = <<>> THEN FALSE
    ELSE IF a = <<>> THEN TRUE
    ELSE IF Head(a) # Head(b) THEN Ord(Head(a)) < Ord(Head(b))
    ELSE StrLess(Tail(a), Tail(b))

\* sorted(names)
RECURSIVE Sorted(_)
Sorted(names) ==
    IF names = {} THEN <<>>
    ELSE LET least == CHOOSE n \in names : \A o \in names \ {n} : StrLess(n, o)
         IN <<least>> \o Sorted(names \ {least})

\* filecmp.DEFAULT_IGNORES, the default of dircmp's parameter ignore
\* ('RCS', 'CVS', 'tags', '.git', ...): the one that is among SrcNames
DEFAULT_IGNORES == {Tags}

\* os.listdir(dir) of a tree given by its entries
Listdir(ents, dir) == {e.name : e \in {x \in ents : x.dir = dir}}

\* the entry dir/name of a tree
Entry(ents, dir, name) == CHOOSE e \in ents : e.dir = dir /\ e.name = name

\* os.path.isfile(os.path.join(dir, name))
IsFile(ents, dir, name) ==
    \E e \in ents : e.dir = dir /\ e.name = name /\ e.kind = "file"

\* (mutant of LeftOnly: every name of the source, whatever the target holds)
LeftOnlyIgnoringTarget(sEnts, tEnts, src, tgt) ==
    Sorted(Listdir(sEnts, src) \ DEFAULT_IGNORES)

\* dircmp(src, tgt).left_only: both listings are filtered by hide + ignore and
\* sorted, left_only keeps the names of the left that the right does not hold
LeftOnly(sEnts, tEnts, src, tgt) ==
    Sorted((Listdir(sEnts, src) \ DEFAULT_IGNORES)
           \ (Listdir(tEnts, tgt) \ DEFAULT_IGNORES))

\* os.makedirs(path, exist_ok=True): the directory and its parents
Makedirs(dirs, path) == dirs \cup {SubSeq(path, 1, k) : k \in 0..Len(path)}

-----------------------------------------------------------------------------
(* mkndaq/utils/filesync.py: rsync                                          *)
(*                                                                         *)
(* A call runs against ctx: the source tree (sEnts, sDirs), the instant    *)
(* now = time.time() taken once, the delay, and fail, the I/O error of the *)
(* call if any: [phase, at, partial] says that the at-th copy (phase       *)
(* "copy") or the at-th staging step (phase "stage") raises, having        *)
(* written nothing or, with partial, a part of its output.                 *)
(* acc is the state of the loops: the target tree (ents, dirs), the list   *)
(* files_copied, the number n of copies begun, whether one raised and on   *)
(* which file.                                                             *)

NoFail == [phase |-> "none", at |-> 0, partial |-> FALSE]

Failures ==
    {NoFail} \cup [phase : {"copy", "stage"}, at : 1..MaxFailAt, partial : BOOLEAN]

FileEntry(dir, name, content) ==
    [dir |-> dir, name |-> name, kind |-> "file", content |-> content]

\* a path below the target: os.path.join(tgt, file)
Path(dir, name) == [dir |-> dir, name |-> name]

\* (mutant of Settled: >= in place of >)
SettledAtDelay(now, mtime, delay) == now - mtime >= delay

\* the settling guard: (now - os.path.getmtime(...)) > delay
Settled(now, mtime, delay) == now - mtime > delay

\* open(dst, "wb"): the file dir/name is created, or replaced
WriteFile(ents, dir, name, content) ==
    {x \in ents : ~(x.dir = dir /\ x.name = name)} \cup {FileEntry(dir, name, content)}

\* (mutant of CopyOne: the copy goes to os.path.join(target, file), not to the
\* bucket tgt)
CopyOneIntoRoot(ctx, acc, dir, file) ==
    LET k == acc.n + 1
    IN IF ctx.fail.phase = "copy" /\ ctx.fail.at = k
       THEN [acc EXCEPT !.n = k, !.raised = TRUE, !.raisedOn = Some(Path(dir, file)),
                        !.ents = IF ctx.fail.partial
                                 THEN WriteFile(@, Root, file, "partial")
                                 ELSE @]
       ELSE [acc EXCEPT !.n = k,
                        !.ents = WriteFile(@, Root, file,
                                           Entry(ctx.sEnts, dir, file).content),
                        !.copied = Append(@, Path(Root, file))]

\* shutil.copy(src/file, tgt/file); files_copied.append(tgt/file)
CopyOne(ctx, acc, dir, file) ==
    LET k == acc.n + 1
    IN IF ctx.fail.phase = "copy" /\ ctx.fail.at = k
       THEN [acc EXCEPT !.n = k, !.raised = TRUE, !.raisedOn = Some(Path(dir, file)),
                        !.ents = IF ctx.fail.partial
                                 THEN WriteFile(@, dir, file, "partial")
                                 ELSE @]
       ELSE [acc EXCEPT !.n = k,
                        !.ents = WriteFile(@, dir, file,
                                           Entry(ctx.sEnts, dir, file).content),
                        !.copied = Append(@, Path(dir, file))]

\* for file in dcmp.left_only: if isfile: if settled: copy
RECURSIVE CopyLoop(_, _, _, _)
CopyLoop(files, ctx, acc, dir) ==
    IF files = <<>> \/ acc.raised THEN acc
    ELSE LET file == Head(files)
             acc1 == IF /\ IsFile(ctx.sEnts, dir, file)
                        /\ Settled(ctx.now, Entry(ctx.sEnts, dir, file).mtime, ctx.delay)
                     THEN CopyOne(ctx, acc, dir, file)
                     ELSE acc
         IN CopyLoop(Tail(files), ctx, acc1, dir)

\* (mutant of SyncBucket: os.makedirs(tgt) before os.path.exists(src) is asked)
SyncBucketMakesTarget(ctx, acc, dte) ==
    LET acc1 == [acc EXCEPT !.dirs = Makedirs(@, dte), !.visited = Append(@, dte)]
    IN IF dte \in ctx.sDirs
       THEN CopyLoop(LeftOnly(ctx.sEnts, acc1.ents, dte, dte), ctx, acc1, dte)
       ELSE acc1

\* one bucket: src = source/dte, tgt = target/dte (dte = Root without buckets);
\* visited lists the buckets in the order the call names them
SyncBucket(ctx, acc, dte) ==
    IF dte \in ctx.sDirs
    THEN LET acc1 == [acc EXCEPT !.dirs = Makedirs(@, dte),
                                 !.visited = Append(@, dte)]
         IN CopyLoop(LeftOnly(ctx.sEnts, acc1.ents, dte, dte), ctx, acc1, dte)
    ELSE \* print(f"'{src}' does not exist.")
         [acc EXCEPT !.visited = Append(@, dte)]

\* (mutant of BucketOf: the timedelta is left out)
BucketOfToday(fmt, now, day) ==
    IF fmt = "daily" THEN FmtDaily(Today(now)) ELSE FmtMonthly(Today(now))

\* (datetime.datetime.now() - datetime.timedelta(days=day)).strftime(fmt)
BucketOf(fmt, now, day) ==
    IF fmt = "daily" THEN FmtDaily(DateMinus(Today(now), day))
    ELSE FmtMonthly(DateMinus(Today(now), day))

\* for day in range(0, days)
RECURSIVE DayLoop(_, _, _, _)
DayLoop(day, ctx, acc, fmt) ==
    IF day >= ctx.days \/ acc.raised THEN acc
    ELSE DayLoop(day + 1, ctx, SyncBucket(ctx, acc, BucketOf(fmt, ctx.now, day)), fmt)

\* if delay is None: delay = 3600 | 86400 | 3600
EffectiveDelay(buckets, delay) ==
    IF delay # None THEN delay[1]
    ELSE IF buckets = Some("monthly") THEN 86400 ELSE 3600

\* (mutant of Walk: the day loop runs without buckets too)
WalkByDays(ctx, acc, buckets) ==
    DayLoop(0, ctx, acc, IF buckets = None THEN "daily" ELSE buckets[1])

\* if fmt: the day loop; else: the source itself, once
Walk(ctx, acc, buckets) ==
    IF buckets = None THEN SyncBucket(ctx, acc, Root)
    ELSE DayLoop(0, ctx, acc, buckets[1])

\* the values of buckets for which rsync sets fmt; any other raises ValueError
RsyncAccepts(buckets) == buckets \in {Some("daily"), Some("monthly"), None}

\* fmt, the strftime format of the bucket directories
Fmt(buckets) ==
    IF buckets = Some("daily") THEN Some("%Y/%m/%d")
    ELSE IF buckets = Some("monthly") THEN Some("%Y/%m")
    ELSE None

\* rsync(source, target, buckets, days, delay) called at instant now.
\* Yields the target tree, the files copied, the file whose copy raised if one
\* did, and ret, the value returned: Some(files_copied), or None when the except
\* clause has printed the error and the function ends without a return; and
\* the buckets the call has named and the delay it has applied.
Rsync(sEnts, sDirs, tEnts, tDirs, buckets, days, delay, now, fail) ==
    IF ~RsyncAccepts(buckets)
    THEN \* raise ValueError, caught by except Exception as err: print(err)
         [ents |-> tEnts, dirs |-> tDirs, copied |-> <<>>, raisedOn |-> None,
          ret |-> None, visited |-> <<>>, delay |-> delay]
    ELSE LET ctx == [sEnts |-> sEnts, sDirs |-> sDirs, days |-> days, now |-> now,
                     delay |-> EffectiveDelay(buckets, delay), fail |-> fail]
             acc0 == [ents |-> tEnts, dirs |-> tDirs, copied |-> <<>>,
                      n |-> 0, raised |-> FALSE, raisedOn |-> None,
                      visited |-> <<>>]
             acc == Walk(ctx, acc0, buckets)
         IN [ents |-> acc.ents, dirs |-> acc.dirs, copied |-> acc.copied,
             raisedOn |-> acc.raisedOn,
             ret |-> IF acc.raised THEN None ELSE Some(acc.copied),
             visited |-> acc.visited, delay |-> Some(ctx.delay)]

-----------------------------------------------------------------------------
(* Staging: the zip archive or the raw copy placed below <staging>/<name>   *)

ZipSuffix == <<".", "z", "i", "p">>

\* s[:-4]
DropLast4(s) == IF Len(s) > 4 THEN SubSeq(s, 1, Len(s) - 4) ELSE <<>>

\* "".join([os.path.basename(file)[:-4], ".zip"])
ArchiveName(basename) == DropLast4(basename) \o ZipSuffix

\* the name of the artifact of a file
ArtifactName(zip, basename) == IF zip THEN ArchiveName(basename) ELSE basename

\* the artifact of a file, written to its end (complete) or not
Artifact(zip, file, content, complete) ==
    [name |-> ArtifactName(zip, file.name), zip |-> zip, origin |-> file,
     content |-> content, complete |-> complete]

\* zipfile.ZipFile(archive, "w") and shutil.copyfile(..., dst) both open their
\* output for writing: an artifact of that name is replaced
Put(arts, a) == {x \in arts : x.name # a.name} \cup {a}

\* the staging step of one file: it raises on the cycle's fail.at-th step
StageOne(zip, fail, tEnts, st, file) ==
    LET k == st.n + 1
        content == Entry(tEnts, file.dir, file.name).content
    IN IF fail.phase = "stage" /\ fail.at = k
       THEN [st EXCEPT !.n = k, !.raised = TRUE, !.raisedOn = Some(file),
                       !.arts = IF fail.partial
                                THEN Put(@, Artifact(zip, file, "partial", FALSE))
                                ELSE @]
       ELSE [st EXCEPT !.n = k, !.arts = Put(@, Artifact(zip, file, content, TRUE)),
                       !.staged = Append(@, file)]

\* for file in files_received: stage
RECURSIVE StageLoop(_, _, _, _, _)
StageLoop(files, zip, fail, tEnts, st) ==
    IF files = <<>> \/ st.raised THEN st
    ELSE StageLoop(Tail(files), zip, fail, tEnts,
                   StageOne(zip, fail, tEnts, st, Head(files)))

-----------------------------------------------------------------------------
(* mkndaq/inst/aerosol.py: AEROSOL                                          *)

\* the values of config[name]['data_storage_interval'] after __init__ has
\* turned the string "None" into None
StorageIntervals == {None, Some("hourly"), Some("daily"), Some("monthly")}

\* the values of config[name]['days_to_sync']
LookbackDays == {1, 2}

\* AEROSOL.__init__: the class attributes read by store_and_stage_new_files
\* (__init__ is a classmethod: self is the class, and the attributes it sets
\* are those every AEROSOL object reads)
AerosolInit(name, dsi, days, zip) ==
    [name |-> name, data_storage_interval |-> dsi, days_to_sync |-> days,
     zip |-> zip]

\* the values of data_storage_interval for which store_and_stage_new_files
\* sets ftime; any other raises ValueError
AerosolAccepts(dsi) == dsi \in {Some("hourly"), Some("daily"), None}

\* ftime, the strftime format store_and_stage_new_files names for the interval
Ftime(dsi) ==
    IF dsi = Some("hourly") THEN Some("%Y/%m/%d")
    ELSE IF dsi = Some("daily") THEN Some("%Y/%m")
    ELSE None

\* what an operation leaves in last
\* (prev: the number of files copied by the cycle that ended without an error
\* immediately before this one, at the same instant on the same source; -1
\* when no such cycle precedes)
Outcome(op, result, copied, staged, raisedOn, prev) ==
    [op |-> op, result |-> result, copied |-> copied, staged |-> staged,
     raisedOn |-> raisedOn, prev |-> prev]

PrevClean == IF last.op = "sync" /\ last.result = "ok" THEN Len(last.copied) ELSE -1

\* AEROSOL.store_and_stage_new_files; netshareUp is what
\* os.path.exists(self._netshare) answers during the call
StoreAndStageNewFiles(netshareUp, fail) ==
    LET dsi == aerosol.data_storage_interval
    IN /\ UNCHANGED <<clock, srcEnts, srcDirs, aerosol>>
       /\ UNCHANGED <<cycles, tei49cVars, meteoVars>>
       /\ UNCHANGED teiVars
       /\ IF ~AerosolAccepts(dsi)
          THEN \* raise ValueError, logged by the outer except
               /\ UNCHANGED <<tgtEnts, tgtDirs, staging>>
               /\ last' = Outcome("sync", "ValueError", <<>>, <<>>, None, -1)
          ELSE IF ~netshareUp
          THEN \* "... is not accessible!"
               /\ UNCHANGED <<tgtEnts, tgtDirs, staging>>
               /\ last' = Outcome("sync", "offline", <<>>, <<>>, None, -1)
          ELSE LET r == Rsync(srcEnts, srcDirs, tgtEnts, tgtDirs, dsi,
                              aerosol.days_to_sync, Some(DefaultDelay), clock, fail)
               IN /\ tgtEnts' = r.ents
                  /\ tgtDirs' = r.dirs
                  /\ IF r.ret = None
                     THEN \* for file in None: TypeError, caught by the bare except
                          /\ staging' = staging
                          /\ last' = Outcome("sync", "except", r.copied, <<>>,
                                             r.raisedOn, -1)
                     ELSE LET st == StageLoop(r.ret[1], aerosol.zip, fail, r.ents,
                                       [arts |-> staging, staged |-> <<>>, n |-> 0,
                                        raised |-> FALSE, raisedOn |-> None])
                          IN /\ staging' = st.arts
                             /\ last' = Outcome("sync",
                                                IF st.raised THEN "except" ELSE "ok",
                                                r.copied, st.staged, st.raisedOn,
                                                PrevClean)

-----------------------------------------------------------------------------
(* mkndaq/inst/tei49i.py: TEI49I                                            *)

\* the values of config['reporting_interval'] (minutes)
ReportingIntervals == {10, 60}

\* mkndaq.utils.datetimebin.dtbin(reporting_interval): the label of the bin
\* that holds now, the date and the time of day at which the bin began
Dtbin(interval, now) ==
    LET dt == Today(now)
        minute == (now % SecondsPerDay) \div 60
        begin == (minute \div interval) * interval
    IN Fmt4(dt.y) \o Fmt2(dt.m) \o Fmt2(dt.d) \o Fmt2(begin \div 60) \o Fmt2(begin % 60)

TeiName == <<"t", "e", "i">>

\* os.path.join(datadir, %Y, %m, %d, "".join([name, "-", dtbin(...), ".dat"]))
Datafile(interval, now) ==
    Path(FmtDaily(Today(now)),
         TeiName \o <<"-">> \o Dtbin(interval, now) \o <<".", "d", "a", "t">>)

\* TEI49I.__init__ on top of the class attributes __datafile = "" and
\* __file_to_stage = None
TeiInit(zip, interval) ==
    [file_to_stage |-> None, datafile |-> None, zip |-> zip,
     reporting_interval |-> interval]

\* the I/O error of one get_data call, if any: raised before anything is written
\* ("open"), after the header of a new file and before the record ("append"),
\* or by the staging step, which has written nothing ("stage") or a part of the
\* artifact ("stage_partial")
TickFailures == {"none", "open", "append", "stage", "stage_partial"}

\* one more I/O error of get_data: open() has created the file and the write
\* of the header raises ("create")

Created(files, datafile) == (datafile :> <<>>) @@ files

\* what a call of get_data leaves in last; ret is the value the caller receives:
\* data, or None when the except clause has printed the error
TickOutcome(op, result, staged, raisedOn, ret) ==
    [op |-> op, result |-> result, copied |-> <<>>, staged |-> staged,
     raisedOn |-> raisedOn, prev |-> -1, ret |-> ret]

\* with open(datafile, "at"): header if the file is new, then the record
Written(files, datafile, line) ==
    IF datafile \in DOMAIN files
    THEN [files EXCEPT ![datafile] = Append(@, line)]
    ELSE (datafile :> <<"header", line>>) @@ files

\* the header of a new file is written, the record is not
HeaderOnly(files, datafile) ==
    IF datafile \in DOMAIN files THEN files ELSE (datafile :> <<"header">>) @@ files

\* (mutant of Rotate: file_to_stage is not set to datafile after staging)
RotateKeepsFile(obj, arts, files, datafile, fail) ==
    IF obj.file_to_stage = None
    THEN [fts |-> Some(datafile), arts |-> arts, staged |-> <<>>, raised |-> FALSE]
    ELSE IF obj.file_to_stage # Some(datafile)
    THEN LET f == obj.file_to_stage[1]
         IN IF fail = "stage"
            THEN [fts |-> obj.file_to_stage, arts |-> arts, staged |-> <<>>,
                  raised |-> TRUE]
            ELSE IF fail = "stage_partial"
            THEN [fts |-> obj.file_to_stage,
                  arts |-> Put(arts, Artifact(obj.zip, f, <<>>, FALSE)),
                  staged |-> <<>>, raised |-> TRUE]
            ELSE [fts |-> obj.file_to_stage,
                  arts |-> Put(arts, Artifact(obj.zip, f, files[f], TRUE)),
                  staged |-> <<f>>, raised |-> FALSE]
    ELSE [fts |-> obj.file_to_stage, arts |-> arts, staged |-> <<>>, raised |-> FALSE]

\* the rotation block of get_data: what becomes of file_to_stage and of the
\* staging directory once the record is in datafile
Rotate(obj, arts, files, datafile, fail) ==
    IF obj.file_to_stage = None
    THEN [fts |-> Some(datafile), arts |-> arts, staged |-> <<>>, raised |-> FALSE]
    ELSE IF obj.file_to_stage # Some(datafile)
    THEN LET f == obj.file_to_stage[1]
         IN IF fail = "stage"
            THEN [fts |-> obj.file_to_stage, arts |-> arts, staged |-> <<>>,
                  raised |-> TRUE]
            ELSE IF fail = "stage_partial"
            THEN [fts |-> obj.file_to_stage,
                  arts |-> Put(arts, Artifact(obj.zip, f, <<>>, FALSE)),
                  staged |-> <<>>, raised |-> TRUE]
            ELSE [fts |-> Some(datafile),
                  arts |-> Put(arts, Artifact(obj.zip, f, files[f], TRUE)),
                  staged |-> <<f>>, raised |-> FALSE]
    ELSE [fts |-> obj.file_to_stage, arts |-> arts, staged |-> <<>>, raised |-> FALSE]

\* what tcpip_comm / serial_comm returns: the response, or None when its
\* except clause has printed the error
Responses == {None, Some("lrec")}

\* TEI49I.get_data(cmd, save); resp is what tcpip_comm / serial_comm returned
GetData(save, resp, fail) ==
    LET datafile == Datafile(tei.reporting_interval, clock)
        line == IF resp = None THEN "None" ELSE "rec"
        lines == IF datafile \in DOMAIN teiFiles THEN Len(teiFiles[datafile]) ELSE 0
    IN /\ lines < MaxLines
       /\ fail = "create" => datafile \notin DOMAIN teiFiles
       /\ UNCHANGED clock
       /\ UNCHANGED <<cycles, tei49cVars, meteoVars>>
       /\ UNCHANGED syncVars
       /\ IF ~save
          THEN /\ UNCHANGED teiVars
               /\ last' = TickOutcome("get_data", "ok", <<>>, None, resp)
          ELSE IF fail = "open"
          THEN /\ tei' = [tei EXCEPT !.datafile = Some(datafile)]
               /\ UNCHANGED <<teiFiles, teiStaging>>
               /\ last' = TickOutcome("get_data", "except", <<>>, Some(datafile), None)
          ELSE IF fail = "create"
          THEN /\ tei' = [tei EXCEPT !.datafile = Some(datafile)]
               /\ teiFiles' = Created(teiFiles, datafile)
               /\ UNCHANGED teiStaging
               /\ last' = TickOutcome("get_data", "except", <<>>, Some(datafile), None)
          ELSE IF fail = "append"
          THEN /\ tei' = [tei EXCEPT !.datafile = Some(datafile)]
               /\ teiFiles' = HeaderOnly(teiFiles, datafile)
               /\ UNCHANGED teiStaging
               /\ last' = TickOutcome("get_data", "except", <<>>, Some(datafile), None)
          ELSE LET files == Written(teiFiles, datafile, line)
                   rot == Rotate(tei, teiStaging, files, datafile, fail)
               IN /\ teiFiles' = files
                  /\ teiStaging' = rot.arts
                  /\ tei' = [tei EXCEPT !.datafile = Some(datafile),
                                        !.file_to_stage = rot.fts]
                  /\ last' = TickOutcome("get_data",
                                         IF rot.raised THEN "except" ELSE "ok",
                                         rot.staged,
                                         IF rot.raised THEN tei.file_to_stage ELSE None,
                                         IF rot.raised THEN None ELSE resp)

\* time.strftime("%Y%m%d%H%M%S")
FmtStamp(now) ==
    LET dt == Today(now)
        secs == now % SecondsPerDay
    IN Fmt4(dt.y) \o Fmt2(dt.m) \o Fmt2(dt.d)
       \o Fmt2(secs \div 3600) \o Fmt2((secs \div 60) % 60) \o Fmt2(secs % 60)

\* os.path.join(datadir, "".join([name, "_all_lrec-", %Y%m%d%H%M%S, ".dat"]))
AllLrecFile(now) ==
    Path(Root, TeiName \o <<"_", "a", "l", "l", "_", "l", "r", "e", "c", "-">>
               \o FmtStamp(now) \o <<".", "d", "a", "t">>)

\* while index > 0: the requests "lrec <index> <retrieve>" in the order they
\* are sent
RECURSIVE LrecLoop(_, _, _)
LrecLoop(index, retrieve, requests) ==
    IF index > 0
    THEN LET r == IF index < 10 THEN index ELSE retrieve
         IN LrecLoop(index - 10, r, Append(requests, [index |-> index, count |-> r]))
    ELSE requests

\* the staging block of get_all_lrec; datafile exists only when the loop has
\* written to it. ZipFile(archive, "w") creates the archive before fh.write
\* looks for the file, shutil.copyfile opens the file first
StageAllLrec(zip, arts, files, datafile) ==
    IF datafile \in DOMAIN files
    THEN [arts |-> Put(arts, Artifact(zip, datafile, files[datafile], TRUE)),
          staged |-> <<datafile>>, raised |-> FALSE]
    ELSE [arts |-> IF zip THEN Put(arts, Artifact(zip, datafile, <<>>, FALSE))
                   ELSE arts,
          staged |-> <<>>, raised |-> TRUE]

\* TEI49I.get_all_lrec(save); n is the number the instrument answers to
\* "no of lrec". One download per second of the clock.
GetAllLrec(n, save) ==
    LET datafile == AllLrecFile(clock)
        requests == LrecLoop(n, 10, <<>>)
        records == [i \in 1..Len(requests) |-> "lrec"]
        files == IF save /\ requests # <<>>
                 THEN (datafile :> (<<"header">> \o records)) @@ teiFiles
                 ELSE teiFiles
        st == IF save THEN StageAllLrec(tei.zip, teiStaging, files, datafile)
              ELSE [arts |-> teiStaging, staged |-> <<>>,
                    \* return data: data is unbound when the loop has not run
                    raised |-> requests = <<>>]
    IN /\ datafile \notin DOMAIN teiFiles
       /\ teiFiles' = files
       /\ teiStaging' = st.arts
       /\ tei' = IF save THEN [tei EXCEPT !.datafile = Some(datafile)] ELSE tei
       /\ UNCHANGED <<clock, cycles, tei49cVars, meteoVars>>
       /\ UNCHANGED syncVars
       /\ last' = [op |-> "get_all_lrec",
                   result |-> IF st.raised THEN "except" ELSE "ok",
                   copied |-> <<>>, staged |-> st.staged,
                   raisedOn |-> IF st.raised /\ save THEN Some(datafile) ELSE None,
                   prev |-> -1,
                   ret |-> IF st.raised THEN None ELSE Some("lrec"),
                   n |-> n, requests |-> requests]

\* the process ends and is started again: a new TEI49I object, the files and
\* the staging directory stay as they are
TeiRestart ==
    /\ tei' = TeiInit(tei.zip, tei.reporting_interval)
    /\ UNCHANGED <<clock, teiFiles, teiStaging>>
    /\ UNCHANGED <<cycles, tei49cVars, meteoVars>>
    /\ UNCHANGED syncVars
    /\ last' = Outcome("restart", "ok", <<>>, <<>>, None, -1)

-----------------------------------------------------------------------------
(* mkndaq/inst/tei49c.py: TEI49C                                            *)

\* TEI49C.__init__ on top of the class attribute _datafile = None
Tei49cInit(zip, interval) ==
    [datafile |-> None, zip |-> zip, reporting_interval |-> interval]

Tei49cName == <<"t", "e", "i", "4", "9", "c">>

\* os.path.join(datadir, "".join([name, "-", dtbin(...), ".dat"]))
Datafile49c(interval, now) ==
    Path(Root, Tei49cName \o <<"-">> \o Dtbin(interval, now) \o <<".", "d", "a", "t">>)

\* the staging block of get_data: the artifact of datafile is written on every
\* saving tick
Stage49c(obj, arts, files, datafile, fail) ==
    IF fail = "stage"
    THEN [arts |-> arts, staged |-> <<>>, raised |-> TRUE]
    ELSE IF fail = "stage_partial"
    THEN [arts |-> Put(arts, Artifact(obj.zip, datafile, <<>>, FALSE)),
          staged |-> <<>>, raised |-> TRUE]
    ELSE [arts |-> Put(arts, Artifact(obj.zip, datafile, files[datafile], TRUE)),
          staged |-> <<datafile>>, raised |-> FALSE]

\* TEI49C.get_data(cmd, save); resp is what serial_comm returned
GetData49c(save, resp, fail) ==
    LET datafile == Datafile49c(tei49c.reporting_interval, clock)
        line == IF resp = None THEN "None" ELSE "rec"
        lines == IF datafile \in DOMAIN tei49cFiles
                 THEN Len(tei49cFiles[datafile]) ELSE 0
    IN /\ lines < MaxLines
       /\ UNCHANGED <<clock, cycles>>
       /\ UNCHANGED syncVars
       /\ UNCHANGED teiVars
       /\ UNCHANGED meteoVars
       /\ IF ~save
          THEN /\ UNCHANGED tei49cVars
               /\ last' = TickOutcome("get_data49c", "ok", <<>>, None, resp)
          ELSE IF fail = "open"
          THEN /\ tei49c' = [tei49c EXCEPT !.datafile = Some(datafile)]
               /\ UNCHANGED <<tei49cFiles, tei49cStaging>>
               /\ last' = TickOutcome("get_data49c", "except", <<>>,
                                       Some(datafile), None)
          ELSE IF fail = "append"
          THEN /\ tei49c' = [tei49c EXCEPT !.datafile = Some(datafile)]
               /\ tei49cFiles' = HeaderOnly(tei49cFiles, datafile)
               /\ UNCHANGED tei49cStaging
               /\ last' = TickOutcome("get_data49c", "except", <<>>,
                                       Some(datafile), None)
          ELSE LET files == Written(tei49cFiles, datafile, line)
                   st == Stage49c(tei49c, tei49cStaging, files, datafile, fail)
               IN /\ tei49cFiles' = files
                  /\ tei49cStaging' = st.arts
                  /\ tei49c' = [tei49c EXCEPT !.datafile = Some(datafile)]
                  /\ last' = TickOutcome("get_data49c",
                                         IF st.raised THEN "except" ELSE "ok",
                                         st.staged,
                                         IF st.raised THEN Some(datafile) ELSE None,
                                         IF st.raised THEN None ELSE resp)

-----------------------------------------------------------------------------
(* mkndaq/inst/meteo.py: METEO                                              *)

\* METEO.__init__: the attribute read by the staging step
MeteoInit(zip) == [zip |-> zip]

\* the I/O error of one cycle, if any: the at-th staging step or the at-th
\* shutil.move raises, having written nothing or, with partial, a part of its
\* output
MeteoFailures ==
    {NoFail} \cup [phase : {"stage", "move"}, at : 1..MaxFailAt, partial : BOOLEAN]

\* a regular file of the source that cannot be read (locked by its writer, no
\* permission)
Locked == <<"l", "o", "c", "k", ".", "d", "a", "t">>

\* the entry of the source is a regular file
MeteoIsFile(name) == name # Sub

\* the staging step of the entry goes through: ZipFile.write stores a
\* directory as an entry of the archive, shutil.copyfile raises
\* IsADirectoryError on it; reading a locked file raises in both
Stageable(zip, name) == name # Locked /\ (zip \/ MeteoIsFile(name))

\* os.listdir(self.source): the names in any order
Orders(names) ==
    {o \in [1..Cardinality(names) -> names] :
        \A i \in DOMAIN o, j \in DOMAIN o : o[i] = o[j] => i = j}

\* os.listdir(self.source) on a file system that lists its entries in a fixed
\* order
OsListdir(names, order) == SelectSeq(order, LAMBDA n : n \in names)

\* (mutant of MeteoOne: the file is moved before it is staged)
MeteoOneMovesFirst(zip, fail, now, st, file) ==
    LET k == st.n + 1
        f == Path(Root, file)
        target == FmtDaily(Today(now))
    IN IF fail.phase = "move" /\ fail.at = k
       THEN [st EXCEPT !.n = k, !.raised = TRUE, !.raisedOn = Some(f),
                       !.data = IF fail.partial
                                THEN WriteFile(@, target, file, "partial") ELSE @]
       ELSE LET st1 == [st EXCEPT !.n = k,
                                  !.data = WriteFile(@, target, file, "data"),
                                  !.source = @ \ {file},
                                  !.moved = Append(@, f)]
            IN IF fail.phase = "stage" /\ fail.at = k
               THEN [st1 EXCEPT !.raised = TRUE, !.raisedOn = Some(f),
                                !.arts = IF fail.partial
                                         THEN Put(@, Artifact(zip, f, "partial", FALSE))
                                         ELSE @]
               ELSE [st1 EXCEPT !.arts = Put(@, Artifact(zip, f, "data", TRUE)),
                                !.staged = Append(@, f)]

\* the body of the loop for one file: the artifact is written, then the file
\* is moved to data_path/%Y/%m/%d
MeteoOne(zip, fail, now, st, file) ==
    LET k == st.n + 1
        f == Path(Root, file)
        target == FmtDaily(Today(now))
    IN IF ~Stageable(zip, file)
       THEN \* ZipFile(archive, "w") has created the archive, fh.write raises;
            \* shutil.copyfile raises before it opens its output
            [st EXCEPT !.n = k, !.raised = TRUE, !.raisedOn = Some(f),
                       !.arts = IF zip
                                THEN Put(@, Artifact(zip, f, "partial", FALSE))
                                ELSE @]
       ELSE IF fail.phase = "stage" /\ fail.at = k
       THEN [st EXCEPT !.n = k, !.raised = TRUE, !.raisedOn = Some(f),
                       !.arts = IF fail.partial
                                THEN Put(@, Artifact(zip, f, "partial", FALSE))
                                ELSE @]
       ELSE LET st1 == [st EXCEPT !.n = k,
                                  !.arts = Put(@, Artifact(zip, f, "data", TRUE)),
                                  !.staged = Append(@, f)]
            IN IF fail.phase = "move" /\ fail.at = k
               THEN [st1 EXCEPT !.raised = TRUE, !.raisedOn = Some(f),
                                !.data = IF fail.partial
                                         THEN WriteFile(@, target, file, "partial")
                                         ELSE @]
               ELSE [st1 EXCEPT !.data = WriteFile(@, target, file, "data"),
                                !.source = @ \ {file},
                                !.moved = Append(@, f)]

\* for file in files
RECURSIVE MeteoLoop(_, _, _, _, _)
MeteoLoop(files, zip, fail, now, st) ==
    IF files = <<>> \/ st.raised THEN st
    ELSE MeteoLoop(Tail(files), zip, fail, now,
                   MeteoOne(zip, fail, now, st, Head(files)))

\* METEO.store_and_stage_files; files is what os.listdir(self.source) answers.
\* prev: the number of files the cycle before this one has left in the source
\* when it ended in an error, -1 otherwise
StoreAndStageFiles(files, fail) ==
    LET st == MeteoLoop(files, meteo.zip, fail, clock,
                        [source |-> meteoSource, data |-> meteoData,
                         arts |-> meteoStaging, staged |-> <<>>, moved |-> <<>>,
                         n |-> 0, raised |-> FALSE, raisedOn |-> None])
    IN /\ meteoSource' = st.source
       /\ meteoData' = st.data
       /\ meteoStaging' = st.arts
       /\ UNCHANGED <<clock, cycles, meteo, dirOrder>>
       /\ UNCHANGED syncVars
       /\ UNCHANGED teiVars
       /\ UNCHANGED tei49cVars
       /\ last' = [op |-> "meteo", result |-> IF st.raised THEN "except" ELSE "ok",
                   copied |-> <<>>, staged |-> st.staged, raisedOn |-> st.raisedOn,
                   prev |-> IF last.op = "meteo" /\ last.result = "except"
                            THEN Cardinality(meteoSource) ELSE -1,
                   moved |-> st.moved]

\* names the meteo system gives to its files
MeteoNames == {ADat, ATxt}

\* the meteo system drops a file into the source directory
MeteoWrites(name) ==
    /\ Cardinality(meteoSource) < MaxSrcEntries
    /\ name \notin meteoSource
    /\ meteoSource' = meteoSource \cup {name}
    /\ UNCHANGED <<clock, cycles, meteo, meteoData, meteoStaging, dirOrder>>
    /\ UNCHANGED syncVars
    /\ UNCHANGED teiVars
    /\ UNCHANGED tei49cVars
    /\ last' = Outcome("producer", "ok", <<>>, <<>>, None, -1)

-----------------------------------------------------------------------------
(* Invocations of AEROSOL.store_and_stage_new_files that run side by side   *)

\* the threads that may be inside store_and_stage_new_files
Invocations == {1, 2}

\* an invocation that has not begun, or has returned
IdleCycle == [pc |-> "idle", todo |-> <<>>, copied |-> <<>>, staged |-> <<>>]

\* what a step of an invocation leaves in last
Step(i, pc) ==
    [op |-> "step", result |-> pc, copied |-> <<>>, staged |-> <<>>,
     raisedOn |-> None, prev |-> -1, invocation |-> i]

\* invocation i enters rsync without buckets: now = time.time(),
\* dcmp = dircmp(source, target), and the for loop takes dcmp.left_only
CycleDiffs(i) ==
    /\ cycles[i].pc = "idle"
    /\ aerosol.data_storage_interval = None
    /\ cycles' = [cycles EXCEPT ![i] =
                      [pc |-> "copy", copied |-> <<>>, staged |-> <<>>,
                       todo |-> LeftOnly(srcEnts, tgtEnts, Root, Root)]]
    /\ UNCHANGED <<clock, tei49cVars, meteoVars>>
    /\ UNCHANGED syncVars
    /\ UNCHANGED teiVars
    /\ last' = Step(i, "copy")

\* one pass of the loop over left_only: isfile, the settling guard,
\* shutil.copy, files_copied.append
CycleCopies(i) ==
    /\ cycles[i].pc = "copy"
    /\ cycles[i].todo # <<>>
    /\ LET file == Head(cycles[i].todo)
           copy == /\ IsFile(srcEnts, Root, file)
                   /\ Settled(clock, Entry(srcEnts, Root, file).mtime, DefaultDelay)
       IN /\ tgtEnts' = IF copy
                         THEN WriteFile(tgtEnts, Root, file,
                                        Entry(srcEnts, Root, file).content)
                         ELSE tgtEnts
          /\ cycles' = [cycles EXCEPT ![i].todo = Tail(@),
                                      ![i].copied = IF copy
                                                    THEN Append(@, Path(Root, file))
                                                    ELSE @]
    /\ UNCHANGED <<clock, srcEnts, srcDirs, tgtDirs, staging, aerosol>>
    /\ UNCHANGED <<tei49cVars, meteoVars>>
    /\ UNCHANGED teiVars
    /\ last' = Step(i, "copy")

\* rsync returns files_copied; the for loop of store_and_stage_new_files
\* takes it
CycleReceives(i) ==
    /\ cycles[i].pc = "copy"
    /\ cycles[i].todo = <<>>
    /\ cycles' = [cycles EXCEPT ![i].pc = "stage", ![i].todo = cycles[i].copied]
    /\ UNCHANGED <<clock, tei49cVars, meteoVars>>
    /\ UNCHANGED syncVars
    /\ UNCHANGED teiVars
    /\ last' = Step(i, "stage")

\* one pass of the loop over files_received: the artifact is written
CycleStages(i) ==
    /\ cycles[i].pc = "stage"
    /\ cycles[i].todo # <<>>
    /\ LET file == Head(cycles[i].todo)
       IN /\ staging' = Put(staging,
                            Artifact(aerosol.zip, file,
                                     Entry(tgtEnts, file.dir, file.name).content, TRUE))
          /\ cycles' = [cycles EXCEPT ![i].todo = Tail(@),
                                      ![i].staged = Append(@, file)]
    /\ UNCHANGED <<clock, srcEnts, srcDirs, tgtEnts, tgtDirs, aerosol>>
    /\ UNCHANGED <<tei49cVars, meteoVars>>
    /\ UNCHANGED teiVars
    /\ last' = Step(i, "stage")

\* store_and_stage_new_files returns
CycleEnds(i) ==
    /\ cycles[i].pc = "stage"
    /\ cycles[i].todo = <<>>
    /\ cycles' = [cycles EXCEPT ![i] = IdleCycle]
    /\ UNCHANGED <<clock, tei49cVars, meteoVars>>
    /\ UNCHANGED syncVars
    /\ UNCHANGED teiVars
    /\ last' = [Step(i, "idle") EXCEPT !.copied = cycles[i].copied,
                                       !.staged = cycles[i].staged]

-----------------------------------------------------------------------------
(* The environment: the clock, the producer that writes below the netshare  *)

\* 22:59:59 on the day of Epoch
StartClock == SecondsPerDay - DefaultDelay - 1

Elapsed == clock - StartClock

AdvanceSecond ==
    /\ Elapsed % 3600 < MaxSecs
    /\ clock' = clock + 1
    /\ UNCHANGED syncVars
    /\ UNCHANGED <<cycles, tei49cVars, meteoVars>>
    /\ UNCHANGED teiVars
    /\ last' = Outcome("clock", "ok", <<>>, <<>>, None, -1)

AdvanceHour ==
    /\ Elapsed \div 3600 < MaxHours
    /\ clock' = clock + 3600
    /\ UNCHANGED syncVars
    /\ UNCHANGED <<cycles, tei49cVars, meteoVars>>
    /\ UNCHANGED teiVars
    /\ last' = Outcome("clock", "ok", <<>>, <<>>, None, -1)

\* the bucket the producer writes to at instant t: the one rsync names for the
\* day of t in the layout the instrument is configured for
ProducerDir(dsi, t) ==
    IF dsi = None THEN Root
    ELSE IF dsi = Some("monthly") THEN FmtMonthly(Today(t))
    ELSE FmtDaily(Today(t))

\* the producer creates a file, or a sub-directory, in today's bucket
ProducerWrites(name, kind) ==
    LET dir == ProducerDir(aerosol.data_storage_interval, clock)
    IN /\ Cardinality(srcEnts) < MaxSrcEntries
       /\ name \notin Listdir(srcEnts, dir)
       /\ srcEnts' = srcEnts \cup {[dir |-> dir, name |-> name, kind |-> kind,
                                    mtime |-> clock, content |-> "data"]}
       /\ srcDirs' = Makedirs(srcDirs, dir)
       /\ UNCHANGED <<clock, tgtEnts, tgtDirs, staging, aerosol>>
       /\ UNCHANGED <<cycles, tei49cVars, meteoVars>>
       /\ UNCHANGED teiVars
       /\ last' = Outcome("producer", "ok", <<>>, <<>>, None, -1)

-----------------------------------------------------------------------------
(* Specifications *)

\* a file of the same name as one the producer will write, already in the
\* archive when the process starts
Stale(dsi) == FileEntry(ProducerDir(dsi, StartClock), ADat, "stale")

\* AEROSOL constructed from one of the configurations, the source empty, the
\* archive empty or holding a stale file; TEI49I constructed from one of the
\* configurations, no rotation file yet
Init ==
    /\ clock = StartClock
    /\ last = Outcome("init", "ok", <<>>, <<>>, None, -1)
    /\ srcEnts = {}
    /\ srcDirs = {Root}
    /\ staging = {}
    /\ \E dsi \in StorageIntervals, days \in LookbackDays, zip \in BOOLEAN :
          /\ aerosol = AerosolInit("aerosol", dsi, days, zip)
          /\ \/ tgtEnts = {} /\ tgtDirs = {Root}
             \/ tgtEnts = {Stale(dsi)} /\ tgtDirs = Makedirs({Root}, Stale(dsi).dir)
    /\ \E zip \in BOOLEAN, interval \in ReportingIntervals : tei = TeiInit(zip, interval)
    /\ teiFiles = <<>>
    /\ teiStaging = {}
    /\ cycles = [i \in Invocations |-> IdleCycle]
    /\ tei49c = Tei49cInit(FALSE, 10)
    /\ tei49cFiles = <<>>
    /\ tei49cStaging = {}
    /\ meteo = MeteoInit(FALSE)
    /\ meteoSource = {}
    /\ meteoData = {}
    /\ meteoStaging = {}
    /\ dirOrder = <<>>

\* as Init, with the TEI49I of one configuration
InitSync ==
    /\ clock = StartClock
    /\ last = Outcome("init", "ok", <<>>, <<>>, None, -1)
    /\ srcEnts = {}
    /\ srcDirs = {Root}
    /\ staging = {}
    /\ \E dsi \in StorageIntervals, days \in LookbackDays, zip \in BOOLEAN :
          /\ aerosol = AerosolInit("aerosol", dsi, days, zip)
          /\ \/ tgtEnts = {} /\ tgtDirs = {Root}
             \/ tgtEnts = {Stale(dsi)} /\ tgtDirs = Makedirs({Root}, Stale(dsi).dir)
    /\ tei = TeiInit(FALSE, 10)
    /\ teiFiles = <<>>
    /\ teiStaging = {}
    /\ cycles = [i \in Invocations |-> IdleCycle]
    /\ tei49c = Tei49cInit(FALSE, 10)
    /\ tei49cFiles = <<>>
    /\ tei49cStaging = {}
    /\ meteo = MeteoInit(FALSE)
    /\ meteoSource = {}
    /\ meteoData = {}
    /\ meteoStaging = {}
    /\ dirOrder = <<>>

\* as Init, with the AEROSOL of one configuration
InitRotation ==
    /\ clock = StartClock
    /\ last = Outcome("init", "ok", <<>>, <<>>, None, -1)
    /\ srcEnts = {}
    /\ srcDirs = {Root}
    /\ staging = {}
    /\ aerosol = AerosolInit("aerosol", None, 1, FALSE)
    /\ tgtEnts = {}
    /\ tgtDirs = {Root}
    /\ \E zip \in BOOLEAN, interval \in ReportingIntervals : tei = TeiInit(zip, interval)
    /\ teiFiles = <<>>
    /\ teiStaging = {}
    /\ cycles = [i \in Invocations |-> IdleCycle]
    /\ tei49c = Tei49cInit(FALSE, 10)
    /\ tei49cFiles = <<>>
    /\ tei49cStaging = {}
    /\ meteo = MeteoInit(FALSE)
    /\ meteoSource = {}
    /\ meteoData = {}
    /\ meteoStaging = {}
    /\ dirOrder = <<>>

SyncCycle ==
    \/ StoreAndStageNewFiles(FALSE, NoFail)
    \/ \E fail \in Failures : StoreAndStageNewFiles(TRUE, fail)

Producer ==
    \E name \in SrcNames \cup {Sub} :
        ProducerWrites(name, IF name = Sub THEN "dir" ELSE "file")

Tick == \E save \in BOOLEAN, resp \in Responses, fail \in TickFailures :
            GetData(save, resp, fail)

\* a tick on which the header of a new file cannot be written
TickCreateFails == GetData(TRUE, Some("lrec"), "create")

\* a saving tick that has received a response
TickReceived == \E fail \in TickFailures : GetData(TRUE, Some("lrec"), fail)

NextSync == SyncCycle \/ Producer \/ AdvanceSecond \/ AdvanceHour

NextRotation == Tick \/ TeiRestart \/ AdvanceSecond \/ AdvanceHour

Next == SyncCycle \/ Producer \/ Tick \/ TeiRestart \/ AdvanceSecond \/ AdvanceHour

\* the sync cycle of AEROSOL in its environment
SpecSync == InitSync /\ [][NextSync]_vars

\* the rotation of TEI49I in its environment
SpecRotation == InitRotation /\ [][NextRotation]_vars

Spec == Init /\ [][Next]_vars

\* TEI49I of one configuration, no rotation file yet
InitHeader ==
    /\ clock = StartClock
    /\ last = Outcome("init", "ok", <<>>, <<>>, None, -1)
    /\ srcEnts = {}
    /\ srcDirs = {Root}
    /\ staging = {}
    /\ aerosol = AerosolInit("aerosol", None, 1, FALSE)
    /\ tgtEnts = {}
    /\ tgtDirs = {Root}
    /\ tei = TeiInit(FALSE, 60)
    /\ teiFiles = <<>>
    /\ teiStaging = {}
    /\ cycles = [i \in Invocations |-> IdleCycle]
    /\ tei49c = Tei49cInit(FALSE, 10)
    /\ tei49cFiles = <<>>
    /\ tei49cStaging = {}
    /\ meteo = MeteoInit(FALSE)
    /\ meteoSource = {}
    /\ meteoData = {}
    /\ meteoStaging = {}
    /\ dirOrder = <<>>

\* TEI49C with hourly files, zipped or not, no rotation file yet
InitTei49c ==
    /\ clock = StartClock
    /\ last = Outcome("init", "ok", <<>>, <<>>, None, -1)
    /\ srcEnts = {}
    /\ srcDirs = {Root}
    /\ staging = {}
    /\ aerosol = AerosolInit("aerosol", None, 1, FALSE)
    /\ tgtEnts = {}
    /\ tgtDirs = {Root}
    /\ tei = TeiInit(FALSE, 10)
    /\ teiFiles = <<>>
    /\ teiStaging = {}
    /\ cycles = [i \in Invocations |-> IdleCycle]
    /\ \E zip \in BOOLEAN : tei49c = Tei49cInit(zip, 60)
    /\ tei49cFiles = <<>>
    /\ tei49cStaging = {}
    /\ meteo = MeteoInit(FALSE)
    /\ meteoSource = {}
    /\ meteoData = {}
    /\ meteoStaging = {}
    /\ dirOrder = <<>>

Tick49c == \E save \in BOOLEAN, resp \in Responses, fail \in TickFailures :
               GetData49c(save, resp, fail)

NextTei49c == Tick49c \/ AdvanceSecond \/ AdvanceHour

\* the ticks of TEI49C in its environment
SpecTei49c == InitTei49c /\ [][NextTei49c]_vars

\* METEO zipping or not, the source and the data directory empty
InitMeteo ==
    /\ clock = StartClock
    /\ last = Outcome("init", "ok", <<>>, <<>>, None, -1)
    /\ srcEnts = {}
    /\ srcDirs = {Root}
    /\ staging = {}
    /\ aerosol = AerosolInit("aerosol", None, 1, FALSE)
    /\ tgtEnts = {}
    /\ tgtDirs = {Root}
    /\ tei = TeiInit(FALSE, 10)
    /\ teiFiles = <<>>
    /\ teiStaging = {}
    /\ cycles = [i \in Invocations |-> IdleCycle]
    /\ tei49c = Tei49cInit(FALSE, 10)
    /\ tei49cFiles = <<>>
    /\ tei49cStaging = {}
    /\ \E zip \in BOOLEAN : meteo = MeteoInit(zip)
    /\ meteoSource = {}
    /\ meteoData = {}
    /\ meteoStaging = {}
    /\ dirOrder = <<>>

MeteoCycle ==
    \E files \in Orders(meteoSource), fail \in MeteoFailures :
        StoreAndStageFiles(files, fail)

MeteoProducer == \E name \in MeteoNames : MeteoWrites(name)

NextMeteo == MeteoCycle \/ MeteoProducer \/ AdvanceSecond \/ AdvanceHour

\* the cycle of METEO in its environment
SpecMeteo == InitMeteo /\ [][NextMeteo]_vars

\* AEROSOL without buckets; the netshare holds settled files, the archive is
\* empty
InitOverlap ==
    /\ clock = StartClock
    /\ last = Outcome("init", "ok", <<>>, <<>>, None, -1)
    /\ \E names \in SUBSET SrcNames :
          srcEnts = {[dir |-> Root, name |-> n, kind |-> "file",
                      mtime |-> StartClock - DefaultDelay - 1, content |-> "data"] :
                         n \in names}
    /\ srcDirs = {Root}
    /\ staging = {}
    /\ \E zip \in BOOLEAN : aerosol = AerosolInit("aerosol", None, 1, zip)
    /\ tgtEnts = {}
    /\ tgtDirs = {Root}
    /\ tei = TeiInit(FALSE, 10)
    /\ teiFiles = <<>>
    /\ teiStaging = {}
    /\ cycles = [i \in Invocations |-> IdleCycle]
    /\ tei49c = Tei49cInit(FALSE, 10)
    /\ tei49cFiles = <<>>
    /\ tei49cStaging = {}
    /\ meteo = MeteoInit(FALSE)
    /\ meteoSource = {}
    /\ meteoData = {}
    /\ meteoStaging = {}
    /\ dirOrder = <<>>

NextOverlap ==
    \E i \in Invocations :
        \/ CycleDiffs(i)
        \/ CycleCopies(i)
        \/ CycleReceives(i)
        \/ CycleStages(i)
        \/ CycleEnds(i)

\* two threads that call store_and_stage_new_files, scheduled freely
SpecOverlap == InitOverlap /\ [][NextOverlap]_vars

\* METEO zipping or not; the source holds some of: two data files, a
\* sub-directory, a file that cannot be read; the file system lists them in
\* an order of its own
InitBlocked ==
    /\ clock = StartClock
    /\ last = Outcome("init", "ok", <<>>, <<>>, None, -1)
    /\ srcEnts = {}
    /\ srcDirs = {Root}
    /\ staging = {}
    /\ aerosol = AerosolInit("aerosol", None, 1, FALSE)
    /\ tgtEnts = {}
    /\ tgtDirs = {Root}
    /\ tei = TeiInit(FALSE, 10)
    /\ teiFiles = <<>>
    /\ teiStaging = {}
    /\ cycles = [i \in Invocations |-> IdleCycle]
    /\ tei49c = Tei49cInit(FALSE, 10)
    /\ tei49cFiles = <<>>
    /\ tei49cStaging = {}
    /\ \E zip \in BOOLEAN : meteo = MeteoInit(zip)
    /\ meteoSource \in SUBSET (MeteoNames \cup {Sub, Locked})
    /\ meteoData = {}
    /\ meteoStaging = {}
    /\ dirOrder \in Orders(MeteoNames \cup {Sub, Locked})

\* a cycle during which no I/O error occurs but those of the entries that
\* cannot be staged
BlockedCycle == StoreAndStageFiles(OsListdir(meteoSource, dirOrder), NoFail)

NextBlocked == BlockedCycle \/ AdvanceSecond \/ AdvanceHour

\* the cycle of METEO on a source with entries that cannot be staged; the
\* scheduler runs the cycle again and again
SpecBlocked == InitBlocked /\ [][NextBlocked]_vars /\ WF_vars(BlockedCycle)

\* TEI49I zipping or not, no file yet
InitLrec ==
    /\ clock = StartClock
    /\ last = Outcome("init", "ok", <<>>, <<>>, None, -1)
    /\ srcEnts = {}
    /\ srcDirs = {Root}
    /\ staging = {}
    /\ aerosol = AerosolInit("aerosol", None, 1, FALSE)
    /\ tgtEnts = {}
    /\ tgtDirs = {Root}
    /\ \E zip \in BOOLEAN : tei = TeiInit(zip, 10)
    /\ teiFiles = <<>>
    /\ teiStaging = {}
    /\ cycles = [i \in Invocations |-> IdleCycle]
    /\ tei49c = Tei49cInit(FALSE, 10)
    /\ tei49cFiles = <<>>
    /\ tei49cStaging = {}
    /\ meteo = MeteoInit(FALSE)
    /\ meteoSource = {}
    /\ meteoData = {}
    /\ meteoStaging = {}
    /\ dirOrder = <<>>

Download == \E n \in 0..MaxLrec, save \in BOOLEAN : GetAllLrec(n, save)

NextLrec == Download \/ AdvanceSecond \/ AdvanceHour

\* the download of the instrument's buffer
SpecLrec == InitLrec /\ [][NextLrec]_vars

NextHeader == TickReceived \/ TickCreateFails \/ TeiRestart \/ AdvanceSecond \/ AdvanceHour

\* the rotation of TEI49I with every I/O error of a tick
SpecHeader == InitHeader /\ [][NextHeader]_vars

-----------------------------------------------------------------------------
(* rsync called directly, with every combination of its parameters          *)

\* 02:00:00 on the second day after Epoch (2024-03-02)
CallClock == 2 * SecondsPerDay + 2 * DefaultDelay

\* the file the producer wrote k days before CallClock, DefaultDelay + 1
\* seconds before the time of day of CallClock
CallEntry(layout, k) ==
    LET t == CallClock - k * SecondsPerDay - (DefaultDelay + 1)
    IN [dir |-> ProducerDir(layout, t),
        name |-> <<Alphabet[k + 2], ".", "d", "a", "t">>,
        kind |-> "file", mtime |-> t, content |-> "data"]

\* the values of the parameter buckets
BucketModes == {None, Some("daily"), Some("monthly"), Some("hourly")}

\* the source in one of the layouts, written on some of the last days; the
\* target empty
InitCalls ==
    /\ clock = CallClock
    /\ last = Outcome("init", "ok", <<>>, <<>>, None, -1)
    /\ \E layout \in {None, Some("daily"), Some("monthly")},
          written \in SUBSET (0..MaxDaysBack) :
          /\ srcEnts = {CallEntry(layout, k) : k \in written}
          /\ srcDirs = {Root} \cup
                 UNION {Makedirs({Root}, CallEntry(layout, k).dir) : k \in written}
    /\ tgtEnts = {}
    /\ tgtDirs = {Root}
    /\ staging = {}
    /\ aerosol = AerosolInit("aerosol", None, 1, FALSE)
    /\ tei = TeiInit(FALSE, 10)
    /\ teiFiles = <<>>
    /\ teiStaging = {}
    /\ cycles = [i \in Invocations |-> IdleCycle]
    /\ tei49c = Tei49cInit(FALSE, 10)
    /\ tei49cFiles = <<>>
    /\ tei49cStaging = {}
    /\ meteo = MeteoInit(FALSE)
    /\ meteoSource = {}
    /\ meteoData = {}
    /\ meteoStaging = {}
    /\ dirOrder = <<>>

\* files = rsync(source, target, buckets, days[, delay]); delayArg says whether
\* the caller leaves the parameter delay out or passes None
RsyncCall(buckets, days, delayArg, fail) ==
    LET delay == IF delayArg = "omitted" THEN Some(DefaultDelay) ELSE None
        r == Rsync(srcEnts, srcDirs, tgtEnts, tgtDirs, buckets, days, delay,
                   clock, fail)
    IN /\ tgtEnts' = r.ents
       /\ tgtDirs' = r.dirs
       /\ UNCHANGED <<clock, srcEnts, srcDirs, staging, aerosol>>
       /\ UNCHANGED <<cycles, tei49cVars, meteoVars>>
       /\ UNCHANGED teiVars
       /\ last' = [op |-> "rsync", result |-> "returned", copied |-> r.copied,
                   staged |-> <<>>, raisedOn |-> r.raisedOn, prev |-> -1,
                   buckets |-> buckets, days |-> days, delayArg |-> delayArg,
                   ret |-> r.ret, visited |-> r.visited, delay |-> r.delay]

Call ==
    \E buckets \in BucketModes, days \in (0 - MaxNegDays)..MaxDays,
       delayArg \in {"omitted", "none"} :
        RsyncCall(buckets, days, delayArg, NoFail)

NextCalls == Call

\* rsync under direct calls
SpecCalls == InitCalls /\ [][NextCalls]_vars

\* the I/O errors of shutil.copy
CopyFailures == {f \in Failures : f.phase = "copy"}

\* a call during which a copy raises
FailingCall ==
    \E buckets \in BucketModes, days \in 1..MaxDays, fail \in CopyFailures :
        RsyncCall(buckets, days, "omitted", fail)

NextFaults == FailingCall

\* rsync under direct calls, with I/O errors
SpecFaults == InitCalls /\ [][NextFaults]_vars

-----------------------------------------------------------------------------
(* The constructors of the instruments                                      *)

\* values of config['reporting_interval'] (minutes) given to a constructor
Intervals == {0, 10, 45, 60, 1440, 1500, 2000}

\* names of instruments in the configuration
InstrumentNames == {"a", "b"}

\* METEO.__init__: the condition under which it raises ValueError
\* (not (A or B) and C is (not (A or B)) and C)
MeteoRejects(ri) == ~(ri = 10 \/ ri % 60 = 0) /\ ri <= 1440

\* what a constructor call leaves in last: the exception that has left
\* __init__ ("raised") or the object ("constructed"), and whether an error was
\* logged inside __init__
Constructed(cls, name, ri, logged) ==
    [op |-> "construct", result |-> "constructed", cls |-> cls, name |-> name,
     interval |-> ri, logged |-> logged]

\* METEO(name, config): the ValueError is caught by the except clause of
\* __init__ and logged
MeteoConstruct(name, ri) ==
    /\ UNCHANGED <<clock, tei, teiFiles, teiStaging>>
    /\ UNCHANGED <<cycles, tei49cVars, meteoVars>>
    /\ UNCHANGED syncVars
    /\ last' = Constructed("METEO", name, ri, MeteoRejects(ri))

\* TEI49I(name, config): the interval is stored as it is
TeiConstruct(name, ri, zip) ==
    /\ tei' = TeiInit(zip, ri)
    /\ UNCHANGED <<clock, teiFiles, teiStaging>>
    /\ UNCHANGED <<cycles, tei49cVars, meteoVars>>
    /\ UNCHANGED syncVars
    /\ last' = Constructed("TEI49I", name, ri, FALSE)

\* AEROSOL(name, config)
AerosolConstruct(name, dsi, zip) ==
    /\ aerosol' = AerosolInit(name, dsi, 1, zip)
    /\ UNCHANGED <<clock, srcEnts, srcDirs, tgtEnts, tgtDirs, staging>>
    /\ UNCHANGED <<cycles, tei49cVars, meteoVars>>
    /\ UNCHANGED teiVars
    /\ last' = Constructed("AEROSOL", name, 0, FALSE)

InitConstruct ==
    /\ clock = StartClock
    /\ last = Outcome("init", "ok", <<>>, <<>>, None, -1)
    /\ srcEnts = {}
    /\ srcDirs = {Root}
    /\ tgtEnts = {}
    /\ tgtDirs = {Root}
    /\ staging = {}
    /\ aerosol = AerosolInit("aerosol", None, 1, FALSE)
    /\ tei = TeiInit(FALSE, 10)
    /\ teiFiles = <<>>
    /\ teiStaging = {}
    /\ cycles = [i \in Invocations |-> IdleCycle]
    /\ tei49c = Tei49cInit(FALSE, 10)
    /\ tei49cFiles = <<>>
    /\ tei49cStaging = {}
    /\ meteo = MeteoInit(FALSE)
    /\ meteoSource = {}
    /\ meteoData = {}
    /\ meteoStaging = {}
    /\ dirOrder = <<>>

ConstructMeteo ==
    \E name \in InstrumentNames, ri \in Intervals : MeteoConstruct(name, ri)

ConstructTei ==
    \E name \in InstrumentNames, ri \in Intervals, zip \in BOOLEAN :
        TeiConstruct(name, ri, zip)

ConstructAerosol ==
    \E name \in InstrumentNames, dsi \in StorageIntervals, zip \in BOOLEAN :
        AerosolConstruct(name, dsi, zip)

NextConstruct == ConstructMeteo \/ ConstructTei \/ ConstructAerosol

\* the constructors, called one after the other in one process
SpecConstruct == InitConstruct /\ [][NextConstruct]_vars

\* the spec's rule for reporting_interval: 10, or a multiple of 60 up to 1440
ValidInterval(ri) == ri = 10 \/ (ri % 60 = 0 /\ ri > 0 /\ ri <= 1440)

\* C19: constructing an instrument with a reporting interval that is neither
\* 10 nor a multiple of 60 up to 1440 fails (the error leaves the
\* constructor); with a valid one it does not.
C19_InvalidIntervalFailsConstruction ==
    (last.op = "construct" /\ last.cls \in {"METEO", "TEI49I"}) =>
        (last.result = "raised" <=> ~ValidInterval(last.interval))

\* C20: instruments share no state: when a second instrument of the class is
\* constructed under another name, the first still reads the name it was
\* constructed with.
C20_InstrumentsShareNoState ==
    [][(/\ last.op = "construct" /\ last.cls = "AEROSOL"
        /\ last'.op = "construct" /\ last'.cls = "AEROSOL"
        /\ last'.name # last.name) =>
          aerosol'.name = last.name]_vars

-----------------------------------------------------------------------------
(* Properties of a direct call                                              *)

\* the dates of the year of Epoch (and days no month has, which name no bucket
\* that DatePlus reaches)
Dates == {[y |-> Epoch.y, m |-> m, d |-> d] : m \in 1..12, d \in 1..31}

NoRepeats(seq) ==
    \A i \in 1..Len(seq), j \in 1..Len(seq) : i # j => seq[i] # seq[j]

\* C12: with buckets = "monthly" the buckets of a call are the YYYY/MM paths
\* of the days of the lookback range, each month named once: no month bucket
\* is diffed twice in a call and no file is twice in the list of copied files.
C12_MonthlyBucketsCollapsed ==
    (last.op = "rsync" /\ last.buckets = Some("monthly") /\ last.days >= 1) =>
        /\ {last.visited[i] : i \in 1..Len(last.visited)} =
               {FmtMonthly(d) : d \in {x \in Dates :
                   \E k \in 0..(last.days - 1) : DatePlus(x, k) = Today(clock)}}
        /\ NoRepeats(last.visited)
        /\ NoRepeats(last.copied)

\* C13: a call with a mode other than None, "daily", "monthly" ends with an
\* exception that reaches the caller, and copies nothing.
C13_InvalidModeRaises ==
    (last.op = "rsync" /\ last.buckets \notin {None, Some("daily"), Some("monthly")})
        => (last.result = "raised" /\ last.copied = <<>>)

\* C14: a call with days <= 0 in a date-partitioned mode is rejected with an
\* error; it does not return the empty list of a call that named no bucket.
C14_NonPositiveDaysRejected ==
    (/\ last.op = "rsync" /\ last.buckets \in {Some("daily"), Some("monthly")}
     /\ last.days <= 0)
        => (last.result = "raised" /\ last.ret = None)

\* the regular files of bucket dir that are left-only and older than delay
SettledLeftOnly(dir, delay) ==
    {Path(dir, e.name) : e \in {x \in srcEnts :
        /\ x.dir = dir /\ x.kind = "file" /\ x.name \notin DEFAULT_IGNORES
        /\ x.name \notin Listdir(tgtEnts, dir) /\ clock - x.mtime > delay}}

\* C15: with buckets = None a call diffs the source root against the target
\* root once, whatever days is: it names the one bucket Root, copies the
\* settled left-only files of the source root into the target root, and leaves
\* the target as a call with days = 1 leaves it.
C15_FlatIsOneBucket ==
    [][(last'.op = "rsync" /\ last'.buckets = None) =>
          /\ last'.visited = <<Root>>
          /\ {last'.copied[i] : i \in 1..Len(last'.copied)} =
                 SettledLeftOnly(Root, last'.delay[1])
          /\ NoRepeats(last'.copied)
          /\ tgtEnts' = tgtEnts \cup
                 {FileEntry(Root, p.name, "data") : p \in SettledLeftOnly(Root, last'.delay[1])}
          /\ tgtDirs' = tgtDirs]_vars

\* a flat call with days = 0 has copied a file
C15_Witness ==
    /\ last.op = "rsync" /\ last.buckets = None /\ last.days = 0
    /\ last.copied # <<>> /\ last.copied[1].dir = Root

\* C16: a bucket whose source directory does not exist yields no candidate and
\* nothing is created or copied in the target for it; the call goes on with
\* the other buckets of the lookback range and returns what it copied there.
C16_MissingBucketIsSkipped ==
    [][(last'.op = "rsync" /\ last'.buckets \in {Some("daily"), Some("monthly")}) =>
          /\ last'.ret = Some(last'.copied)
          /\ \A i \in 1..Len(last'.visited) :
                 LET b == last'.visited[i]
                 IN IF b \in srcDirs
                    THEN \A p \in SettledLeftOnly(b, last'.delay[1]) :
                             \E j \in 1..Len(last'.copied) : last'.copied[j] = p
                    ELSE /\ b \in tgtDirs' => b \in tgtDirs
                         /\ \A j \in 1..Len(last'.copied) : last'.copied[j].dir # b]_vars

\* today's bucket does not exist at the source, and the call has copied a file
\* from an earlier day's bucket
C16_Witness ==
    /\ last.op = "rsync" /\ last.buckets = Some("daily") /\ last.days >= 2
    /\ last.visited[1] \notin srcDirs /\ last.visited[1] \notin tgtDirs
    /\ last.copied # <<>>

\* C17: when the caller configures no delay (it passes None, or leaves the
\* parameter out as AEROSOL does) the delay applied is 3600 s without buckets
\* and with daily buckets, 86400 s with monthly buckets.
C17_DefaultDelayByMode ==
    (last.op = "rsync" /\ last.buckets \in {None, Some("daily"), Some("monthly")}) =>
        last.delay = Some(IF last.buckets = Some("monthly") THEN 86400 ELSE 3600)

-----------------------------------------------------------------------------
(* Properties of the sync cycle                                             *)

Range(seq) == {seq[i] : i \in 1..Len(seq)}

\* the buckets a cycle of AEROSOL visits at the instant clock
Visited ==
    IF aerosol.data_storage_interval = None THEN {Root}
    ELSE IF aerosol.data_storage_interval \in {Some("daily"), Some("monthly")}
    THEN {BucketOf(aerosol.data_storage_interval[1], clock, day) :
              day \in 0..(aerosol.days_to_sync - 1)}
    ELSE {}

Age(e) == clock - e.mtime

\* entry e of the source is a regular file that the archive does not hold under
\* its name
Unsynced(e) == e.kind = "file" /\ e.name \notin Listdir(tgtEnts, e.dir)

\* the candidates of a cycle begun in this state: the regular files of the
\* visited buckets that dircmp reports as left_only
Candidates ==
    {e \in srcEnts : Unsynced(e) /\ e.dir \in Visited /\ e.name \notin DEFAULT_IGNORES}

\* the candidates the settling filter keeps
Eligible == {e \in Candidates : Age(e) > DefaultDelay}

PathOf(e) == Path(e.dir, e.name)

\* C1: in one sync cycle a failure of the copy step or of the staging step on
\* one file does not abort the cycle: every other eligible candidate of the
\* cycle is still copied to the archive and staged.
C1_FailureDoesNotAbortCycle ==
    [][(last'.op = "sync" /\ last'.raisedOn # None) =>
          \A e \in Eligible :
              PathOf(e) # last'.raisedOn[1] =>
                  /\ PathOf(e) \in Range(last'.copied)
                  /\ PathOf(e) \in Range(last'.staged)]_vars

\* C2: a file whose copy or staging step failed in one cycle is absent from the
\* archive and is therefore copied and staged by the next cycle that runs
\* without an error.
C2_FailedFileIsRetried ==
    [][(/\ last.op = "sync" /\ last.raisedOn # None
        /\ last'.op = "sync" /\ last'.result = "ok") =>
          /\ last.raisedOn[1].name \notin Listdir(tgtEnts, last.raisedOn[1].dir)
          /\ last.raisedOn[1] \in Range(last'.copied)
          /\ last.raisedOn[1] \in Range(last'.staged)]_vars

\* every artifact written to its end is still there, for the same file
Kept(before, after) ==
    \A a \in before :
        a.complete => \E b \in after : b.name = a.name /\ b.origin = a.origin

\* file f has been staged: its artifact was written to its end
IsStaged(arts, f) == \E a \in arts : a.origin = f /\ a.complete

\* C5: the core never removes a staging artifact: no step deletes an artifact
\* produced earlier or replaces it by the artifact of a different file, and
\* after a cycle or a tick the staging directory holds an artifact for every
\* file the step has staged.
C5_ArtifactsAreKept ==
    [][/\ Kept(staging, staging')
       /\ Kept(teiStaging, teiStaging')
       /\ last'.op = "sync" =>
              \A f \in Range(last'.staged) : IsStaged(staging', f)
       /\ last'.op = "get_data" =>
              \A f \in Range(last'.staged) : IsStaged(teiStaging', f)]_vars

\* C6: a cycle that runs immediately after a cycle that ended without an error
\* (same instant, no new source file) copies no file and stages none.
C6_SecondRunCopiesNothing ==
    (last.op = "sync" /\ last.result = "ok" /\ last.prev >= 0) =>
        (last.copied = <<>> /\ last.staged = <<>>)

\* a first cycle copied files, the second one has run and copied none
C6_Witness ==
    /\ last.op = "sync" /\ last.result = "ok"
    /\ last.prev > 0 /\ last.copied = <<>>

\* C7: a cycle copies only candidates with now - mtime > delay, and a cycle that
\* ends without an error copies every such candidate: age delay + 1 is copied,
\* ages delay and delay - 1 are not.
C7_SettlingGuard ==
    [][last'.op = "sync" =>
          /\ \A p \in Range(last'.copied) :
                 \E e \in Candidates : PathOf(e) = p /\ Age(e) > DefaultDelay
          /\ last'.result = "ok" =>
                 \A e \in Candidates :
                     Age(e) > DefaultDelay => PathOf(e) \in Range(last'.copied)]_vars

\* a cycle has copied a file of age delay + 1 and left one of age delay
C7_Witness ==
    /\ last.op = "sync" /\ last.result = "ok"
    /\ \E e1 \in srcEnts, e2 \in srcEnts :
          /\ Age(e1) = DefaultDelay + 1 /\ PathOf(e1) \in Range(last.copied)
          /\ Age(e2) = DefaultDelay /\ Unsynced(e2) /\ e2.name \notin DEFAULT_IGNORES
          /\ e2.dir \in Visited

\* C8: a source file that the settling filter excluded stays a candidate: a
\* cycle that ends without an error once the file's age exceeds the delay
\* copies it, in every partition mode and for every lookback.
C8_ExcludedFileIsCopiedLater ==
    [][(last'.op = "sync" /\ last'.result = "ok") =>
          \A e \in srcEnts :
              (Unsynced(e) /\ e.name \notin DEFAULT_IGNORES /\ Age(e) > DefaultDelay)
                  => PathOf(e) \in Range(last'.copied)]_vars

\* C9: the files a cycle considers for copying are exactly the regular files
\* that are immediate entries of a visited source bucket and absent by name
\* from the destination bucket: a cycle that ends without an error copies
\* those of them that are settled, and nothing else.
C9_ConsidersEveryRegularFile ==
    [][(last'.op = "sync" /\ last'.result = "ok") =>
          Range(last'.copied) =
              {PathOf(e) : e \in {x \in srcEnts : /\ Unsynced(x) /\ x.dir \in Visited
                                                   /\ Age(x) > DefaultDelay}}]_vars

-----------------------------------------------------------------------------
(* Properties of the rotation                                               *)

\* the rotation file of the bin that holds the instant clock
CurrentFile == Datafile(tei.reporting_interval, clock)

C4_FileLeftOpenIsStaged ==
    [][(/\ last'.op = "get_data" /\ last'.result = "ok" /\ teiFiles' # teiFiles
        /\ tei.datafile = None) =>
          \A f \in DOMAIN teiFiles :
              (f # CurrentFile /\ Len(teiFiles[f]) > 1) =>
                  IsStaged(teiStaging', f)]_vars

\* C21: a tick on which opening, creating or appending to the bin file failed
\* hands its caller an outcome that no tick that wrote its record hands back.
C21_WriteFailureIsSurfaced ==
    (last.op = "get_data" /\ last.result = "except") => last.ret \notin Responses

\* C22: every rotation file that holds a line has the header as its first
\* line, and the header nowhere else.
C22_HeaderExactlyOnce ==
    \A f \in DOMAIN teiFiles :
        teiFiles[f] # <<>> =>
            /\ teiFiles[f][1] = "header"
            /\ \A i \in 2..Len(teiFiles[f]) : teiFiles[f][i] # "header"

\* the lines hold a record
HoldsRecord(lines) == \E i \in 1..Len(lines) : lines[i] # "header"

\* C23: a polling driver stages only finalized files: a rotation file that has
\* been staged receives no further line (TEI49I and TEI49C).
C23_NoAppendAfterStaging ==
    [][/\ \A f \in DOMAIN teiFiles :
              IsStaged(teiStaging, f) => teiFiles'[f] = teiFiles[f]
       /\ \A f \in DOMAIN tei49cFiles :
              IsStaged(tei49cStaging, f) => tei49cFiles'[f] = tei49cFiles[f]]_vars

\* C28: every closed bin file is staged in the end, also after a failed
\* staging attempt: when the only record-holding files not yet staged are the
\* one remembered for staging and the one written last, a tick that ends
\* without an error leaves every record-holding file of an earlier bin staged.
C28_ClosedFilesAreStaged ==
    [][(/\ tei.file_to_stage # None
        /\ \A f \in DOMAIN teiFiles :
               (HoldsRecord(teiFiles[f]) /\ Some(f) \notin {tei.file_to_stage, tei.datafile})
                   => IsStaged(teiStaging, f)
        /\ last'.op = "get_data" /\ last'.result = "ok" /\ teiFiles' # teiFiles) =>
          \A f \in DOMAIN teiFiles' :
              (HoldsRecord(teiFiles'[f]) /\ f # CurrentFile) => IsStaged(teiStaging', f)]_vars

\* C29: no line of a rotation file stands for a response that was not
\* received: a tick whose communication failed appends nothing.
C29_NoRecordWithoutResponse ==
    \A f \in DOMAIN teiFiles :
        \A i \in 1..Len(teiFiles[f]) : teiFiles[f][i] # "None"

\* C24: however two invocations of store_and_stage_new_files for the
\* instrument are interleaved, no source file is copied by both and none is
\* staged by both.
C24_NoFileHandledTwice ==
    \A i \in Invocations, j \in Invocations :
        i # j =>
            /\ Range(cycles[i].copied) \cap Range(cycles[j].copied) = {}
            /\ Range(cycles[i].staged) \cap Range(cycles[j].staged) = {}

\* C25: archive copy and staging artifact come in pairs: at the end of a sync
\* cycle, however it ended, every file the cycle has placed in the archive
\* has been staged by it.
C25_CopyAndArtifactInPairs ==
    [][last'.op = "sync" =>
          \A e \in tgtEnts' \ tgtEnts : PathOf(e) \in Range(last'.staged)]_vars

\* C26: the value rsync returns names the files the call has copied into the
\* target and nothing else, also when a later copy of the call has raised.
C26_ReturnNamesCopiedFiles ==
    (last.op = "rsync" /\ last.copied # <<>>) => last.ret = Some(last.copied)

\* C27: every data_storage_interval that store_and_stage_new_files accepts is
\* accepted by rsync and stands for the same bucket layout in both, and the
\* cycle then ends in an error only when the copy or the staging of a file has
\* raised one.
C27_AcceptedIntervalsAgree ==
    (last.op = "sync" /\ AerosolAccepts(aerosol.data_storage_interval)) =>
        /\ RsyncAccepts(aerosol.data_storage_interval)
        /\ Fmt(aerosol.data_storage_interval) = Ftime(aerosol.data_storage_interval)
        /\ last.result = "except" => last.raisedOn # None

\* C30: in a cycle of METEO a file leaves the source only after its artifact
\* has been written, so every file is in the source or has been staged, also
\* after a failure in mid-cycle; and a cycle that ends without an error stages
\* and moves every file of the source, those left by a failed cycle among them.
C30_StagedBeforeMoved ==
    [][last'.op = "meteo" =>
          /\ meteoSource' \subseteq meteoSource
          /\ \A n \in meteoSource \ meteoSource' :
                 /\ Path(Root, n) \in Range(last'.staged)
                 /\ \E d \in meteoData' : d.name = n /\ d.content = "data"
          /\ last'.result = "ok" =>
                 /\ meteoSource' = {}
                 /\ Range(last'.moved) = {Path(Root, n) : n \in meteoSource}]_vars

\* a cycle has staged and moved the files that the failed cycle before it had
\* left in the source
C30_Witness ==
    /\ last.op = "meteo" /\ last.result = "ok"
    /\ last.prev > 0 /\ Len(last.moved) = last.prev
    /\ meteoSource = {}

\* C31: in METEO.store_and_stage_files an entry of the source that cannot be
\* staged does not block the others: whatever the order of the listing, the
\* repeated cycle reaches a point from which no stageable regular file is left
\* in the source.
C31_UnstageableDoesNotBlock ==
    <>[](\A n \in meteoSource : ~(MeteoIsFile(n) /\ Stageable(meteo.zip, n)))

\* the records a request "lrec <index> <count>" asks for
Covered(request) == (request.index - request.count + 1)..request.index

\* C32: get_all_lrec ends for every buffer size n, and its requests partition
\* the records 1..n: every record is asked for by exactly one request and no
\* request asks for more records than remain; with n = 0 no request is sent
\* and nothing is written to the staging directory.
C32_RequestsPartitionBuffer ==
    [][last'.op = "get_all_lrec" =>
          /\ \A k \in 1..last'.n :
                 Cardinality({i \in 1..Len(last'.requests) :
                                 k \in Covered(last'.requests[i])}) = 1
          /\ \A i \in 1..Len(last'.requests) :
                 /\ last'.requests[i].count >= 1
                 /\ last'.requests[i].count <= last'.requests[i].index
                 /\ last'.requests[i].index <= last'.n
          /\ last'.n = 0 =>
                 (last'.requests = <<>> /\ teiStaging' = teiStaging)]_vars

\* os.path.splitext(basename)[0]: the name up to its last dot, the whole name
\* when it has none (or only a leading one)
RECURSIVE Stem(_)
Stem(basename) ==
    IF \A i \in 2..Len(basename) : basename[i] # "." THEN basename
    ELSE IF basename[Len(basename)] = "." THEN SubSeq(basename, 1, Len(basename) - 1)
    ELSE LET stem == Stem(SubSeq(basename, 1, Len(basename) - 1))
         IN IF Len(stem) < Len(basename) - 1 THEN stem
            ELSE SubSeq(basename, 1, Len(basename) - 1)

\* C18: with staging_zip the artifact of a file is named by the file's
\* basename without its extension, followed by ".zip", and two files staged
\* by a cycle never have the same artifact name.
C18_ArchiveNameIsStem ==
    (last.op = "sync" /\ aerosol.zip) =>
        /\ \A a \in staging : a.name = Stem(a.origin.name) \o ZipSuffix
        /\ \A f \in Range(last.staged), g \in Range(last.staged) :
               f # g => ArtifactName(TRUE, f.name) # ArtifactName(TRUE, g.name)

=============================================================================
